---- MODULE Spec2Model ----
(***************************************************************************)
(* File organizer (main.py): get_category and organize_files.             *)
(*                                                                         *)
(* Strings are sequences of one-character strings, so that lower(),       *)
(* splitext(), startswith('.') and the "name_N.ext" formatting are        *)
(* computed as the code computes them.  A path is the sequence of its     *)
(* components below the `directory` argument; <<>> is `directory` itself. *)
(***************************************************************************)
EXTENDS Integers, Sequences, FiniteSets, TLC

VARIABLES
  fs,                      \* the filesystem below (and including) `directory`
  fs0,                     \* the filesystem when the current run started
  dry_run,                 \* organize_files parameter
  recursive,               \* organize_files parameter
  create_category_folders, \* organize_files parameter
  pc,                      \* position of organize_files
  stack,                   \* os.walk: directories still to visit
  root,                    \* os.walk: directory being visited
  files,                   \* names of `files` not yet iterated
  total_files,
  organized_files,
  skipped_files,
  result,                  \* return value of organize_files
  log,                     \* events handed to the logger in this run
  prevLog,                 \* events of the previous run
  run,                     \* number of the current run
  faults,                  \* I/O failures injected so far
  clsIn,                   \* get_category: argument
  clsOut                   \* get_category: returned value

vars == <<fs, fs0, dry_run, recursive, create_category_folders, pc, stack,
          root, files, total_files, organized_files, skipped_files, result,
          log, prevLog, run, faults, clsIn, clsOut>>

-----------------------------------------------------------------------------
(* Bounds *)

\* largest number of entries picked for an initial tree
MaxFiles == 3
\* runs of organize_files in succession
MaxRuns == 2
\* I/O failures (makedirs / shutil.move raising) per behaviour
MaxFaults == 1

-----------------------------------------------------------------------------
(* Strings *)

LowerChars == <<"a","b","c","d","e","f","g","h","i","j","k","l","m","n","o","p","q","r","s","t","u","v","w","x","y","z">>
UpperChars == <<"A","B","C","D","E","F","G","H","I","J","K","L","M","N","O","P","Q","R","S","T","U","V","W","X","Y","Z">>
Digits == <<"0","1","2","3","4","5","6","7","8","9">>

Range(s) == {s[i] : i \in DOMAIN s}

\* str.lower() of one character (ASCII)
LowerChar(c) ==
  IF \E i \in DOMAIN UpperChars : UpperChars[i] = c
  THEN LowerChars[CHOOSE i \in DOMAIN UpperChars : UpperChars[i] = c]
  ELSE c

\* str.lower()
lower(s) == [i \in DOMAIN s |-> LowerChar(s[i])]

\* str.upper() of one character (ASCII)
UpperChar(c) ==
  IF \E i \in DOMAIN LowerChars : LowerChars[i] = c
  THEN UpperChars[CHOOSE i \in DOMAIN LowerChars : LowerChars[i] = c]
  ELSE c

\* str.upper()
upper(s) == [i \in DOMAIN s |-> UpperChar(s[i])]

RECURSIVE str(_)
\* str(counter): decimal digits of a natural number
str(n) ==
  IF n < 10 THEN <<Digits[n + 1]>>
  ELSE str(n \div 10) \o <<Digits[(n % 10) + 1]>>

\* the hidden-file test always failing
startswith_dot_never(filename) == FALSE

\* filename.startswith('.')
startswith_dot(filename) == Len(filename) > 0 /\ filename[1] = "."

\* os.path.splitext on a name without separators: the extension starts at
\* the last dot, unless only dots precede it
splitext(p) ==
  LET dots == {i \in DOMAIN p : p[i] = "."} IN
  IF dots = {} THEN <<p, <<>>>>
  ELSE LET dotIndex == CHOOSE i \in dots : \A j \in dots : j <= i IN
       IF \E k \in 1..(dotIndex - 1) : p[k] # "."
       THEN <<SubSeq(p, 1, dotIndex - 1), SubSeq(p, dotIndex, Len(p))>>
       ELSE <<p, <<>>>>

-----------------------------------------------------------------------------
(* get_category *)

categories ==
  <<
     [name |-> <<"i","m","a","g","e","s">>,
      exts |-> << <<".","j","p","g">>,
                  <<".","j","p","e","g">>,
                  <<".","p","n","g">>,
                  <<".","g","i","f">>,
                  <<".","b","m","p">>,
                  <<".","s","v","g">>,
                  <<".","t","i","f","f">>,
                  <<".","w","e","b","p">> >>],
     [name |-> <<"d","o","c","u","m","e","n","t","s">>,
      exts |-> << <<".","p","d","f">>,
                  <<".","d","o","c">>,
                  <<".","d","o","c","x">>,
                  <<".","t","x","t">>,
                  <<".","r","t","f">>,
                  <<".","o","d","t">>,
                  <<".","x","l","s">>,
                  <<".","x","l","s","x">>,
                  <<".","p","p","t">>,
                  <<".","p","p","t","x">> >>],
     [name |-> <<"a","u","d","i","o">>,
      exts |-> << <<".","m","p","3">>,
                  <<".","w","a","v">>,
                  <<".","f","l","a","c">>,
                  <<".","a","a","c">>,
                  <<".","o","g","g">>,
                  <<".","w","m","a">> >>],
     [name |-> <<"v","i","d","e","o">>,
      exts |-> << <<".","m","p","4">>,
                  <<".","a","v","i">>,
                  <<".","m","k","v">>,
                  <<".","m","o","v">>,
                  <<".","w","m","v">>,
                  <<".","f","l","v">>,
                  <<".","w","e","b","m">> >>],
     [name |-> <<"a","r","c","h","i","v","e","s">>,
      exts |-> << <<".","z","i","p">>,
                  <<".","r","a","r">>,
                  <<".","7","z">>,
                  <<".","t","a","r">>,
                  <<".","g","z">>,
                  <<".","b","z","2">> >>],
     [name |-> <<"c","o","d","e">>,
      exts |-> << <<".","p","y">>,
                  <<".","j","s">>,
                  <<".","h","t","m","l">>,
                  <<".","c","s","s">>,
                  <<".","j","a","v","a">>,
                  <<".","c","p","p">>,
                  <<".","c">>,
                  <<".","p","h","p">>,
                  <<".","r","b">>,
                  <<".","g","o">>,
                  <<".","t","s">>,
                  <<".","j","s","x">>,
                  <<".","j","s","o","n">> >>]
  >>

others == <<"o","t","h","e","r","s">>

\* the loop over categories.items(): first category, in declaration order,
\* whose list holds the extension
get_category_from(extension) ==
  IF \E i \in DOMAIN categories : extension \in Range(categories[i].exts)
  THEN categories[CHOOSE i \in DOMAIN categories :
                    /\ extension \in Range(categories[i].exts)
                    /\ \A j \in 1..(i - 1) :
                         extension \notin Range(categories[j].exts)].name
  ELSE others

\* get_category without the call of lower()
get_category_as_given(file_extension) == get_category_from(file_extension)

get_category(file_extension) == get_category_from(lower(file_extension))


-----------------------------------------------------------------------------
(* The filesystem *)

\* the `directory` argument
directory == <<>>

\* os.path.join(a, name)
join(a, name) == Append(a, name)

\* the entry is present in its parent directory (os.path.lexists)
lexists(f, p) == p \in DOMAIN f

\* os.path.exists follows symbolic links: False for a dangling link
exists(f, p) == p \in DOMAIN f /\ f[p].kind # "dangling"

\* os.path.exists mistaken for os.path.isdir
isdir_as_exists(f, p) == p \in DOMAIN f

\* os.path.isdir
isdir(f, p) == p \in DOMAIN f /\ f[p].kind = "dir"

\* os.path.islink
islink(f, p) == p \in DOMAIN f /\ f[p].kind \in {"link", "dangling"}

\* os.scandir(top)
scandir(f, top) ==
  {p \in DOMAIN f : Len(p) = Len(top) + 1 /\ SubSeq(p, 1, Len(top)) = top}

\* os.walk: the `dirs` of top, as paths
walk_dirs(f, top) == {p \in scandir(f, top) : f[p].kind = "dir"}

\* os.walk: the `files` of top (every entry that is not a directory)
walk_files(f, top) ==
  {p[Len(p)] : p \in {q \in scandir(f, top) : f[q].kind # "dir"}}

\* os.makedirs(p), the parent being `directory`
makedirs(f, p) ==
  [q \in DOMAIN f \cup {p} |-> IF q = p THEN [kind |-> "dir", id |-> 0] ELSE f[q]]

\* shutil.move(src, dst) succeeding, dst not being a directory: os.rename,
\* which replaces whatever entry dst names
move(f, src, dst) ==
  [q \in (DOMAIN f \ {src}) \cup {dst} |-> IF q = dst THEN f[src] ELSE f[q]]

-----------------------------------------------------------------------------
(* Initial trees *)

n_photo == <<"p","h","o","t","o",".","J","P","G">>
n_note == <<"n","o","t","e",".","t","x","t">>
n_script == <<"s","c","r","i","p","t",".","p","y">>
n_hidden == <<".","h","i","d","d","e","n">>
n_noext == <<"n","o","e","x","t">>
n_lnk == <<"l","n","k",".","t","x","t">>
n_note_1 == <<"n","o","t","e","_","1",".","t","x","t">>
n_sub1 == <<"s","u","b","1">>
n_sub2 == <<"s","u","b","2">>
n_deep == <<"d","e","e","p">>
n_documents == <<"d","o","c","u","m","e","n","t","s">>

\* entries an initial tree is picked from
Candidates ==
  << [path |-> <<n_photo>>,                 kind |-> "file"],
     [path |-> <<n_note>>,                  kind |-> "file"],
     [path |-> <<n_script>>,                kind |-> "file"],
     [path |-> <<n_hidden>>,                kind |-> "file"],
     [path |-> <<n_noext>>,                 kind |-> "file"],
     [path |-> <<n_lnk>>,                   kind |-> "link"],
     [path |-> <<n_sub1, n_note>>,          kind |-> "file"],
     [path |-> <<n_sub2, n_deep, n_note>>,  kind |-> "file"],
     [path |-> <<n_documents, n_note>>,     kind |-> "file"],
     [path |-> <<n_documents, n_note>>,     kind |-> "dangling"],
     [path |-> <<n_documents, n_note_1>>,   kind |-> "file"],
     [path |-> <<n_documents, n_script>>,   kind |-> "file"] >>

\* Scenario A of the specification
ScenarioA == {1, 2, 3, 4, 5}

Selections ==
  {I \in SUBSET (2..Len(Candidates)) :
     /\ Cardinality(I) <= MaxFiles
     /\ \A i, j \in I : Candidates[i].path = Candidates[j].path => i = j}
  \cup {ScenarioA}

\* the tree holding the selected entries and the directories above them
TreeOf(I) ==
  LET paths == {Candidates[i].path : i \in I}
      dirs  == {directory} \cup
               UNION {{SubSeq(q, 1, k) : k \in 0..(Len(q) - 1)} : q \in paths}
  IN [q \in paths \cup dirs |->
        IF q \in dirs THEN [kind |-> "dir", id |-> 0]
        ELSE LET i == CHOOSE i \in I : Candidates[i].path = q
             IN [kind |-> Candidates[i].kind, id |-> i]]

\* `directory` does not exist
MissingTree == [q \in {} |-> [kind |-> "dir", id |-> 0]]

\* `directory` names a regular file
FileTree == [q \in {directory} |-> [kind |-> "file", id |-> 1]]

InitialTrees == {TreeOf(I) : I \in Selections} \cup {MissingTree, FileTree}

-----------------------------------------------------------------------------
(* organize_files: the values computed for one filename of the loop *)

file_path(filename) == join(root, filename)

file_extension(filename) == splitext(filename)[2]

category(filename) == get_category(file_extension(filename))

category_path(filename) == join(directory, category(filename))

\* the condition guarding os.makedirs without its dry-run test
needs_makedirs_in_dry_run(filename) ==
  /\ create_category_folders
  /\ ~exists(fs, category_path(filename))

\* the condition guarding os.makedirs
needs_makedirs(filename) ==
  /\ create_category_folders
  /\ ~exists(fs, category_path(filename))
  /\ ~dry_run

\* the filesystem once the category folder has been created where needed
fs_with_folder(filename) ==
  IF needs_makedirs(filename) THEN makedirs(fs, category_path(filename)) ELSE fs

\* os.path.join(directory, category, filename)
first_dest_path(filename) == join(category_path(filename), filename)

\* the same-place test always failing
same_place_never(filename) == FALSE

\* os.path.abspath(file_path) == os.path.abspath(dest_path)
same_place(filename) == file_path(filename) = first_dest_path(filename)

\* f"{name}_{counter}{ext}" with name, ext = os.path.splitext(original_dest_path)
numbered(original_dest_path, counter) ==
  LET n  == Len(original_dest_path)
      sp == splitext(original_dest_path[n])
  IN join(SubSeq(original_dest_path, 1, n - 1),
          sp[1] \o <<"_">> \o str(counter) \o sp[2])

\* one test of the condition of the while loop
path_taken(f, dest_path) == exists(f, dest_path) /\ ~dry_run

RECURSIVE conflict_loop(_, _, _, _)
\* the while loop that handles filename conflicts
conflict_loop(f, original_dest_path, dest_path, counter) ==
  IF path_taken(f, dest_path)
  THEN conflict_loop(f, original_dest_path,
                     numbered(original_dest_path, counter), counter + 1)
  ELSE dest_path

\* dest_path handed to shutil.move
dest_path(filename) ==
  conflict_loop(fs_with_folder(filename), first_dest_path(filename),
                first_dest_path(filename), 1)

\* the file passed the three skip rules that precede classification
classified(filename) ==
  /\ ~startswith_dot(filename)
  /\ ~islink(fs, file_path(filename))
  /\ file_extension(filename) # <<>>

\* shutil.move cannot raise for a reason the tree itself gives
move_possible(filename) ==
  /\ lexists(fs, file_path(filename))
  /\ isdir(fs_with_folder(filename), category_path(filename))

Event(ev, path, dest) == [ev |-> ev, path |-> path, dest |-> dest]

\* logger.info("Created category directory: ...") when makedirs ran
created_event(filename) ==
  IF needs_makedirs(filename)
  THEN {Event("created", category_path(filename), <<>>)}
  ELSE {}

-----------------------------------------------------------------------------
(* organize_files *)

Init ==
  /\ fs \in InitialTrees
  /\ fs0 = fs
  /\ dry_run \in BOOLEAN
  /\ recursive \in BOOLEAN
  /\ create_category_folders \in BOOLEAN
  /\ pc = "start"
  /\ stack = <<>>
  /\ root = directory
  /\ files = {}
  /\ total_files = 0
  /\ organized_files = 0
  /\ skipped_files = 0
  /\ result = "none"
  /\ log = {}
  /\ prevLog = {}
  /\ run = 1
  /\ faults = 0
  /\ clsIn = <<>>
  /\ clsOut = <<>>

\* if not os.path.exists(directory): return False
DirectoryNotFound ==
  /\ pc = "start"
  /\ ~exists(fs, directory)
  /\ log' = log \cup {Event("not_found", directory, <<>>)}
  /\ result' = FALSE
  /\ pc' = "done"
  /\ UNCHANGED <<fs, fs0, dry_run, recursive, create_category_folders, stack,
                 root, files, total_files, organized_files, skipped_files,
                 prevLog, run, faults, clsIn, clsOut>>

\* if not os.path.isdir(directory): return False
NotADirectory ==
  /\ pc = "start"
  /\ exists(fs, directory)
  /\ ~isdir(fs, directory)
  /\ log' = log \cup {Event("not_a_directory", directory, <<>>)}
  /\ result' = FALSE
  /\ pc' = "done"
  /\ UNCHANGED <<fs, fs0, dry_run, recursive, create_category_folders, stack,
                 root, files, total_files, organized_files, skipped_files,
                 prevLog, run, faults, clsIn, clsOut>>

\* the counters are set to 0 and os.walk(directory) is created
BeginWalk ==
  /\ pc = "start"
  /\ exists(fs, directory)
  /\ isdir(fs, directory)
  /\ total_files' = 0
  /\ organized_files' = 0
  /\ skipped_files' = 0
  /\ stack' = << {directory} >>
  /\ files' = {}
  /\ pc' = "walk"
  /\ UNCHANGED <<fs, fs0, dry_run, recursive, create_category_folders, root,
                 result, log, prevLog, run, faults, clsIn, clsOut>>

\* the walk after `top` was taken from the last set of siblings and its
\* subdirectories were added: siblings are visited in any order, a
\* directory before its subdirectories
stack_after(top) ==
  LET n    == Len(stack)
      rest == IF stack[n] = {top} THEN SubSeq(stack, 1, n - 1)
              ELSE [stack EXCEPT ![n] = @ \ {top}]
      subs == walk_dirs(fs, top)
  IN IF subs = {} THEN rest ELSE Append(rest, subs)

\* no directory skipped by `continue`
skip_directory_never(top) == FALSE

\* the walk was entered with this directory skipped by `continue`
skip_directory(top) == ~recursive /\ top # directory

\* os.walk yields (root, dirs, files) for a directory of the tree that the
\* loop body iterates
WalkVisit ==
  /\ pc = "walk"
  /\ files = {}
  /\ stack # <<>>
  /\ \E top \in stack[Len(stack)] :
       /\ ~skip_directory(top)
       /\ root' = top
       /\ files' = walk_files(fs, top)
       /\ stack' = stack_after(top)
  /\ UNCHANGED <<fs, fs0, dry_run, recursive, create_category_folders, pc,
                 total_files, organized_files, skipped_files, result, log,
                 prevLog, run, faults, clsIn, clsOut>>

\* if not recursive and root != directory: continue
WalkSkip ==
  /\ pc = "walk"
  /\ files = {}
  /\ stack # <<>>
  /\ \E top \in stack[Len(stack)] :
       /\ skip_directory(top)
       /\ root' = top
       /\ stack' = stack_after(top)
  /\ UNCHANGED <<fs, fs0, dry_run, recursive, create_category_folders, pc,
                 files, total_files, organized_files, skipped_files, result,
                 log, prevLog, run, faults, clsIn, clsOut>>

\* if filename.startswith('.'): continue
SkipHidden ==
  /\ pc = "walk"
  /\ \E filename \in files :
       /\ startswith_dot(filename)
       /\ files' = files \ {filename}
  /\ UNCHANGED <<fs, fs0, dry_run, recursive, create_category_folders, pc,
                 stack, root, total_files, organized_files, skipped_files,
                 result, log, prevLog, run, faults, clsIn, clsOut>>

\* if os.path.islink(file_path): skipped_files += 1; continue
SkipSymlink ==
  /\ pc = "walk"
  /\ \E filename \in files :
       /\ ~startswith_dot(filename)
       /\ islink(fs, file_path(filename))
       /\ files' = files \ {filename}
       /\ log' = log \cup {Event("symlink", file_path(filename), <<>>)}
  /\ skipped_files' = skipped_files + 1
  /\ UNCHANGED <<fs, fs0, dry_run, recursive, create_category_folders, pc,
                 stack, root, total_files, organized_files, result,
                 prevLog, run, faults, clsIn, clsOut>>

\* total_files += 1; if not file_extension: skipped_files += 1; continue
SkipNoExtension ==
  /\ pc = "walk"
  /\ \E filename \in files :
       /\ ~startswith_dot(filename)
       /\ ~islink(fs, file_path(filename))
       /\ file_extension(filename) = <<>>
       /\ files' = files \ {filename}
       /\ log' = log \cup {Event("no_extension", file_path(filename), <<>>)}
  /\ total_files' = total_files + 1
  /\ skipped_files' = skipped_files + 1
  /\ UNCHANGED <<fs, fs0, dry_run, recursive, create_category_folders, pc,
                 stack, root, organized_files, result, prevLog, run, faults,
                 clsIn, clsOut>>

\* os.makedirs(category_path) raises: it is outside the try block, the
\* exception leaves organize_files
MakedirsRaises ==
  /\ pc = "walk"
  /\ faults < MaxFaults
  /\ \E filename \in files :
       /\ classified(filename)
       /\ needs_makedirs(filename)
  /\ total_files' = total_files + 1
  /\ faults' = faults + 1
  /\ pc' = "raised"
  /\ UNCHANGED <<fs, fs0, dry_run, recursive, create_category_folders, stack,
                 root, files, organized_files, skipped_files, result, log,
                 prevLog, run, clsIn, clsOut>>

\* source and destination are the same: skipped_files += 1; continue
SkipSamePlace ==
  /\ pc = "walk"
  /\ \E filename \in files :
       /\ classified(filename)
       /\ same_place(filename)
       /\ fs' = fs_with_folder(filename)
       /\ files' = files \ {filename}
       /\ log' = log \cup created_event(filename)
                     \cup {Event("in_place", file_path(filename), <<>>)}
  /\ total_files' = total_files + 1
  /\ skipped_files' = skipped_files + 1
  /\ UNCHANGED <<fs0, dry_run, recursive, create_category_folders, pc, stack,
                 root, organized_files, result, prevLog, run, faults, clsIn,
                 clsOut>>

\* dry run: the intended move is logged, organized_files += 1
DryRunMove ==
  /\ pc = "walk"
  /\ dry_run
  /\ \E filename \in files :
       /\ classified(filename)
       /\ ~same_place(filename)
       /\ fs' = fs_with_folder(filename)
       /\ files' = files \ {filename}
       /\ log' = log \cup created_event(filename)
                     \cup {Event("would_move", file_path(filename),
                                 first_dest_path(filename))}
  /\ total_files' = total_files + 1
  /\ organized_files' = organized_files + 1
  /\ UNCHANGED <<fs0, dry_run, recursive, create_category_folders, pc, stack,
                 root, skipped_files, result, prevLog, run, faults, clsIn,
                 clsOut>>

\* shutil.move(file_path, dest_path) succeeds: organized_files += 1
MoveFile ==
  /\ pc = "walk"
  /\ ~dry_run
  /\ \E filename \in files :
       /\ classified(filename)
       /\ ~same_place(filename)
       /\ move_possible(filename)
       /\ fs' = move(fs_with_folder(filename), file_path(filename),
                     dest_path(filename))
       /\ files' = files \ {filename}
       /\ log' = log \cup created_event(filename)
                     \cup {Event("moved", file_path(filename),
                                 dest_path(filename))}
  /\ total_files' = total_files + 1
  /\ organized_files' = organized_files + 1
  /\ UNCHANGED <<fs0, dry_run, recursive, create_category_folders, pc, stack,
                 root, skipped_files, result, prevLog, run, faults, clsIn,
                 clsOut>>

\* shutil.move raises, the except clause counts the file as skipped
MoveRaises ==
  /\ pc = "walk"
  /\ ~dry_run
  /\ \E filename \in files :
       /\ classified(filename)
       /\ ~same_place(filename)
       /\ \/ ~move_possible(filename) /\ faults' = faults
          \/ move_possible(filename) /\ faults < MaxFaults
                                     /\ faults' = faults + 1
       /\ fs' = fs_with_folder(filename)
       /\ files' = files \ {filename}
       /\ log' = log \cup created_event(filename)
                     \cup {Event("move_error", file_path(filename),
                                 dest_path(filename))}
  /\ total_files' = total_files + 1
  /\ skipped_files' = skipped_files + 1
  /\ UNCHANGED <<fs0, dry_run, recursive, create_category_folders, pc, stack,
                 root, organized_files, result, prevLog, run, clsIn, clsOut>>

\* the walk is exhausted: the summary line (the three counters) is logged,
\* return True
Finish ==
  /\ pc = "walk"
  /\ files = {}
  /\ stack = <<>>
  /\ result' = TRUE
  /\ pc' = "done"
  /\ UNCHANGED <<fs, fs0, dry_run, recursive, create_category_folders, stack,
                 root, files, total_files, organized_files, skipped_files,
                 log, prevLog, run, faults, clsIn, clsOut>>

\* organize_files is called again on the same directory with the same options
RunAgain ==
  /\ pc = "done"
  /\ result = TRUE
  /\ run < MaxRuns
  /\ run' = run + 1
  /\ prevLog' = log
  /\ log' = {}
  /\ fs0' = fs
  /\ result' = "none"
  /\ pc' = "start"
  /\ UNCHANGED <<fs, dry_run, recursive, create_category_folders, stack, root,
                 files, total_files, organized_files, skipped_files, faults,
                 clsIn, clsOut>>

Next ==
  \/ DirectoryNotFound
  \/ NotADirectory
  \/ BeginWalk
  \/ WalkVisit
  \/ WalkSkip
  \/ SkipHidden
  \/ SkipSymlink
  \/ SkipNoExtension
  \/ MakedirsRaises
  \/ SkipSamePlace
  \/ DryRunMove
  \/ MoveFile
  \/ MoveRaises
  \/ Finish
  \/ RunAgain

Spec == Init /\ [][Next]_vars

-----------------------------------------------------------------------------
(* get_category on its own *)

\* every extension of the table
TableExtensions == UNION {Range(categories[i].exts) : i \in DOMAIN categories}

\* str.capitalize()-like mixed case: first letter after the dot in upper case
mixed(s) == [i \in DOMAIN s |-> IF i = 2 THEN UpperChar(s[i]) ELSE s[i]]

\* strings of no list, in any case
Unlisted ==
  { <<".","z","z","z">>,
    <<".","j","p","g","x">>,
    <<"p","y">>,
    <<".">>,
    <<".","P","Y","2">>,
    <<".","t","a","r",".","g","z">>,
    <<"j","p","g">>,
    <<".","j","p">>,
    <<".","Q">>,
    <<>> }

ClassifyInputs ==
  TableExtensions
  \cup {upper(e) : e \in TableExtensions}
  \cup {mixed(e) : e \in TableExtensions}
  \cup Unlisted

InitClassify ==
  /\ clsIn \in ClassifyInputs
  /\ clsOut = <<>>
  /\ pc = "classify"
  /\ fs = MissingTree
  /\ fs0 = MissingTree
  /\ dry_run = FALSE
  /\ recursive = FALSE
  /\ create_category_folders = TRUE
  /\ stack = <<>>
  /\ root = directory
  /\ files = {}
  /\ total_files = 0
  /\ organized_files = 0
  /\ skipped_files = 0
  /\ result = "none"
  /\ log = {}
  /\ prevLog = {}
  /\ run = 1
  /\ faults = 0

\* category = get_category(file_extension)
Classify ==
  /\ pc = "classify"
  /\ clsOut' = get_category(clsIn)
  /\ pc' = "classified"
  /\ UNCHANGED <<fs, fs0, dry_run, recursive, create_category_folders, stack,
                 root, files, total_files, organized_files, skipped_files,
                 result, log, prevLog, run, faults, clsIn>>

NextClassify == Classify

SpecClassify == InitClassify /\ [][NextClassify]_vars

-----------------------------------------------------------------------------
(* Properties *)

Last(s) == s[Len(s)]

\* the entries of f that os.path.isfile accepts and the walk of this run covers
WalkedFiles(f) ==
  {q \in DOMAIN f : /\ f[q].kind = "file"
                    /\ Len(q) >= 1
                    /\ recursive \/ Len(q) = 1}

\* walked regular files that are not hidden
CountableFiles(f) == {q \in WalkedFiles(f) : ~startswith_dot(Last(q))}

\* countable files with an extension that are not yet in their category folder
EligibleFiles(f) ==
  {q \in CountableFiles(f) :
     /\ splitext(Last(q))[2] # <<>>
     /\ q # <<get_category(splitext(Last(q))[2]), Last(q)>>}

SymlinksSkipped == Cardinality({e \in log : e.ev = "symlink"})

MovedBy(l) == {e \in l : e.ev = "moved"}

\* C1: in a real run every move goes to a path that no entry occupies, and
\* when directory/category/filename is occupied it goes to the first free
\* path among name_1.ext, name_2.ext, ...
C1_MoveTargetsFreePath ==
  [][\A e \in MovedBy(log') \ MovedBy(log) :
       LET original == <<e.dest[1], Last(e.path)>> IN
       /\ ~lexists(fs, e.dest)
       /\ \/ e.dest = original
          \/ \E k \in 1..Cardinality(DOMAIN fs) :
               /\ e.dest = numbered(original, k)
               /\ lexists(fs, original)
               /\ \A j \in 1..(k - 1) : lexists(fs, numbered(original, j))]_vars

\* C2: a dry run leaves the filesystem as it was at every step, and when it
\* returns every eligible file has been counted as organized
C2_DryRunFrame ==
  dry_run =>
    /\ fs = fs0
    /\ (pc = "done" /\ result = TRUE) =>
         organized_files = Cardinality(EligibleFiles(fs0))

C2_Witness ==
  /\ dry_run
  /\ recursive
  /\ pc = "done"
  /\ organized_files >= 2
  /\ \E e \in log : e.ev = "would_move" /\ lexists(fs, e.dest)

C4_BadDirectoryFails ==
  (directory \notin DOMAIN fs0 \/ fs0[directory].kind # "dir") =>
    /\ pc \in {"start", "done"}
    /\ pc = "done" => result = FALSE
    /\ fs = fs0
    /\ stack = <<>>
    /\ total_files = 0 /\ organized_files = 0 /\ skipped_files = 0

C4_Witness ==
  /\ fs0 = FileTree
  /\ pc = "done"
  /\ result = FALSE
  /\ Event("not_a_directory", directory, <<>>) \in log

\* C5: after an I/O failure on a file the run goes on and returns True; no
\* failure leaves organize_files by an exception
C5_FailuresRecovered ==
  faults > 0 =>
    /\ pc \in {"walk", "done"}
    /\ pc = "done" => result = TRUE

\* C6 as stated: Scenario A ends with the three files in images, documents
\* and code, .hidden and noext in place, and counters 3, 3, 1
ScenarioAResult ==
  LET images == categories[1].name
      docs   == categories[2].name
      code   == categories[6].name
      placed == {<<images, n_photo>>, <<docs, n_note>>, <<code, n_script>>,
                 <<n_hidden>>, <<n_noext>>}
      dirs   == {directory, <<images>>, <<docs>>, <<code>>}
  IN [q \in placed \cup dirs |->
        IF q \in dirs THEN [kind |-> "dir", id |-> 0]
        ELSE [kind |-> "file",
              id |-> CHOOSE i \in ScenarioA : Last(Candidates[i].path) = Last(q)]]

ScenarioARun ==
  /\ fs0 = TreeOf(ScenarioA)
  /\ run = 1
  /\ ~recursive
  /\ ~dry_run
  /\ create_category_folders
  /\ faults = 0
  /\ pc = "done"

C6_ScenarioA_Total3 ==
  ScenarioARun =>
    /\ fs = ScenarioAResult
    /\ total_files = 3
    /\ organized_files = 3
    /\ skipped_files = 1

\* C6 amended: Scenario A ends with the three files in images, documents and
\* code, .hidden and noext in place, and counters 4, 3, 1: the file without
\* extension advances totalFiles and skippedFiles
C6_ScenarioA_Total4 ==
  ScenarioARun =>
    /\ fs = ScenarioAResult
    /\ total_files = 4
    /\ organized_files = 3
    /\ skipped_files = 1

C6_Witness == ScenarioARun /\ fs = ScenarioAResult /\ total_files = 4

C8_Classify ==
  pc = "classified" =>
    /\ \A i \in DOMAIN categories : \A e \in Range(categories[i].exts) :
         ( /\ \A j \in DOMAIN categories :
                e \in Range(categories[j].exts) => j = i
           /\ clsIn \in {e, upper(e)} )
         => clsOut = categories[i].name
    /\ (\A e \in TableExtensions : upper(clsIn) # upper(e)) => clsOut = others

C8_Witness ==
  /\ pc = "classified"
  /\ clsIn = upper(categories[1].exts[1])
  /\ clsIn # categories[1].exts[1]
  /\ clsOut = categories[1].name

\* C9: while a run is under way and when it has ended,
\* organizedFiles + skippedFiles = totalFiles + symbolic links skipped
C9_CountersBalance ==
  pc \in {"walk", "done", "raised"} =>
    organized_files + skipped_files = total_files + SymlinksSkipped

\* C10: totalFiles never exceeds the number of non-hidden regular files that
\* the walked tree held when the run started
C10_NoDoubleProcessing ==
  pc \in {"walk", "done", "raised"} =>
    total_files <= Cardinality(CountableFiles(fs0))

====
